---- MODULE Spec2Model ----
(***************************************************************************)
(* A model of the exe-unit network bridge of yagna                         *)
(* (src/exe-unit/src/network.rs): the length-prefixed frame codec          *)
(* (write_prefix, RxBuffer, RxIterator, take_next, read_prefix) and the    *)
(* Endpoint that bridges a unix socket to a channel.                       *)
(*                                                                         *)
(* Scale.  A byte is modelled as one digit in 0..ByteMod-1 and the u16     *)
(* Prefix as PREFIX_SIZE such digits, so that the prefix wraps at          *)
(* PrefixMod = ByteMod^PREFIX_SIZE (65536 in the program) and the wrap is  *)
(* inside the payload lengths the model explores.                          *)
(***************************************************************************)
EXTENDS Integers, Sequences, FiniteSets, TLC

\* ------------------------------------------------------------------ bounds

\* Number of values of one byte (256 in the program).
ByteMod == 2

\* Longest payload handed to write_prefix.
MaxLen == 4

\* Most bytes ever put on the wire towards the decoder.
MaxStream == 7

\* Most bytes the guest ever writes to the socket.
MaxGuest == 1

\* Most read errors the socket ever reports.
MaxFaults == 1

\* Most send() calls on the Endpoint's channel.
MaxSend == 2

\* Longest message sent on the Endpoint's channel.
MaxMsgLen == 2

\* Most Endpoint::connect calls.
MaxConnects == 4

\* Most pieces a node id or a network id is made of.
MaxPieces == 2

\* Bits of an IP address (32 or 128 in the program).
AddrBits == 3

\* Local ports of one Interface (2^16 in the program).
MaxPorts == 2

\* Most packets the Devices hand to their Stacks.
MaxPackets == 2

\* Most proposal events spawn_workers gets, one offer task each.
MaxOffers == 2

\* ------------------------------------------------------- program constants

\* type Prefix = u16; PREFIX_SIZE = size_of::<Prefix>()
PREFIX_SIZE == 2

RECURSIVE Pow(_, _)
Pow(b, e) == IF e = 0 THEN 1 ELSE b * Pow(b, e - 1)

\* Number of values of a Prefix: u16::MAX + 1.
PrefixMod == Pow(ByteMod, PREFIX_SIZE)

Byte == 0 .. (ByteMod - 1)

\* Vec<u8> of at most n bytes.
Bytes(n) == UNION {[1 .. k -> Byte] : k \in 0 .. n}

\* Option<T>: the empty sequence is None, <<v>> is Some(v).
None == <<>>
Some(v) == <<v>>
is_some(o) == Len(o) = 1
unwrap(o) == o[1]

VARIABLES
    bigEndian,  \* target_endian of the build: decides to_ne_bytes / from_ne_bytes
    tx,         \* every write_prefix call so far: [payload, frame]
    wire,       \* framed bytes not yet handed to RxBuffer::process
    rxAll,      \* every byte handed to RxBuffer::process so far, in order
    inner,      \* RxBuffer.inner
    iterLive,   \* an RxIterator returned by process() is alive
    drained,    \* the live iterator's last next() returned None
    lastRet,    \* what the last next() returned
    pass,       \* the items the live iterator has yielded
    dst,        \* every item yielded so far, over all calls
    nCalls      \* number of process() calls so far

VARIABLES
    sockIn,     \* bytes the guest wrote to the socket, not yet read
    guestBytes, \* number of bytes the guest has written
    peerClosed, \* the guest closed its end: reads return 0 once sockIn is empty
    faults,     \* number of read errors so far
    streamSt,   \* the read stream: "idle", "reading" (r.read pending), "ended", "dropped"
    rxOwner,    \* who holds the stream: "endpoint" (Endpoint.rx), "consumer", "dropped"
    items,      \* the items the read stream has yielded
    reads,      \* number of r.read calls that returned
    lastRead,   \* how the last r.read returned: "none", "data", "eof", "error"
    epAlive,    \* the Endpoint (and its tx) has not been dropped
    clones,     \* some clone of Endpoint.tx is alive
    chan,       \* the unbounded channel tx_si -> rx_si
    writerPc,   \* the writer task: "recv", "write", "done"
    cur,        \* what write_all has still to write
    written,    \* the bytes written to the socket
    stopCause,  \* why the writer task left its loop (and what it logged)
    nSend,      \* number of send() calls on the channel
    rejected,   \* number of send() calls that failed: the receiver was gone
    discarded,  \* messages still queued when the receiver was dropped
    sentLog     \* the messages the channel has accepted, in send order

VARIABLES
    unix,       \* cfg(unix) of the build
    connPc,     \* Endpoint::connect: "idle", "match", "connecting", "connected"
    connArg,    \* the kind of the ContainerEndpoint passed to connect
    opened,     \* UnixStream::connect calls made by the current connect call
    chanMade,   \* channels created by the current connect call
    spawned,    \* tasks spawned by the current connect call
    calls       \* the connect calls that returned: [kind, result, opened, chanMade, spawned]

VARIABLES
    gNode,      \* gsb_endpoint: the node_id argument
    gNet,       \* gsb_endpoint: the net_id argument
    gEp         \* gsb_endpoint: what the call returned, None before it

VARIABLES
    v6,         \* DeploymentNetwork: network is an Ipv6Net (else an Ipv4Net)
    netAddr,    \* DeploymentNetwork: the address net.network was built with
    prefixLen,  \* DeploymentNetwork: the prefix length of net.network
    nodeIp,     \* DeploymentNetwork: node_ip
    converted   \* what Network::try_from(&net) returned, None before the call

VARIABLES
    netOpen,    \* Service: the Network exists
    stack,      \* per node: the state of its Interface's Stack
    assignedIp, \* per node: the address assigned to its Interface, if any
    device,     \* per node: its Interface holds a Device
    ports,      \* per node: how many open sockets have each local port
    inflight,   \* per node: packets forwarded and not yet through
    drops,      \* per node: the routing-drop counter
    forwarded,  \* packets handed to a bus endpoint so far
    ret         \* the last operation and what it returned

VARIABLES
    offer,        \* per offer task: the proposal of its event, None before it
    offerPc,      \* per offer task: the market call it awaits, or none / ended
    marketCalls,  \* per offer task: the market calls it has made, in order
    marketRets,   \* per offer task: how these calls were answered (TRUE for Ok)
    offerResult,  \* per offer task: what process_offer returned
    collecting,   \* the loop of spawn_workers runs and holds tx
    agreements,   \* the channel: the agreement ids sent and not yet received
    workerPc,     \* the agreement worker: recv, process, terminate or ended
    workerCur,    \* the agreement worker: the id it is handling
    workerLog     \* the agreement worker: what it has done, in order

codecVars == <<bigEndian, tx, wire, rxAll, inner, iterLive, drained, lastRet, pass, dst, nCalls>>

readVars == <<sockIn, guestBytes, peerClosed, faults, streamSt, rxOwner, items, reads, lastRead>>

writeVars == <<epAlive, clones, chan, writerPc, cur, written, stopCause, nSend, rejected, discarded,
              sentLog>>

bridgeVars == <<readVars, writeVars>>

connVars == <<unix, connPc, connArg, opened, chanMade, spawned, calls>>

gsbVars == <<gNode, gNet, gEp>>

netVars == <<v6, netAddr, prefixLen, nodeIp, converted>>

vpnVars == <<netOpen, stack, assignedIp, device, ports, inflight, drops, forwarded, ret>>

\* What neither the codec nor a connected bridge touches.
reqVars == <<offer, offerPc, marketCalls, marketRets, offerResult, collecting, agreements,
             workerPc, workerCur, workerLog>>

otherVars == <<connVars, gsbVars, netVars, vpnVars, reqVars>>

\* What Endpoint::connect leaves alone, and what gsb_endpoint does.
notConn == <<codecVars, gsbVars, netVars, vpnVars, reqVars>>
notGsb == <<codecVars, bridgeVars, connVars, netVars, vpnVars, reqVars>>
notNet == <<codecVars, bridgeVars, connVars, gsbVars, vpnVars, reqVars>>
notVpn == <<codecVars, bridgeVars, connVars, gsbVars, netVars, reqVars>>
notReq == <<codecVars, bridgeVars, connVars, gsbVars, netVars, vpnVars>>

vars == <<codecVars, bridgeVars, otherVars>>

\* -------------------------------------------------------------- frame codec

\* u16::to_ne_bytes
to_ne_bytes(be, v) ==
    IF be THEN <<v \div ByteMod, v % ByteMod>> ELSE <<v % ByteMod, v \div ByteMod>>

\* u16::from_ne_bytes
from_ne_bytes(be, b) ==
    IF be THEN b[1] * ByteMod + b[2] ELSE b[2] * ByteMod + b[1]

\* dst.len() as u16: the cast keeps the low 16 bits.
as_u16(n) == n % PrefixMod

\* Mutant of write_prefix: the prefix counts its own two bytes.
write_prefix_inclusive(be, v) == to_ne_bytes(be, as_u16(Len(v) + PREFIX_SIZE)) \o v

write_prefix(be, v) == to_ne_bytes(be, as_u16(Len(v))) \o v

\* Buf::advance(n)
advance(src, n) == SubSeq(src, n + 1, Len(src))

\* Mutant of split_to: the byte after the first n is lost.
split_to_lossy(src, n) == [head |-> SubSeq(src, 1, n), rest |-> SubSeq(src, n + 2, Len(src))]

\* BytesMut::split_to(n): the first n bytes, and what stays in the buffer.
split_to(src, n) == [head |-> SubSeq(src, 1, n), rest |-> SubSeq(src, n + 1, Len(src))]

read_prefix(be, src) ==
    IF Len(src) < PREFIX_SIZE
    THEN None
    ELSE Some(from_ne_bytes(be, SubSeq(src, 1, PREFIX_SIZE)))

\* Mutant of take_next: the prefix is consumed before the length test.
take_next_eager(src, len) ==
    LET p_len == PREFIX_SIZE + len IN
    IF Len(src) >= p_len
    THEN LET s == split_to(advance(src, PREFIX_SIZE), len)
         IN  [src |-> s.rest, ret |-> Some(s.head)]
    ELSE [src |-> advance(src, PREFIX_SIZE), ret |-> None]

\* Mutant of take_next: the length test is strict.
take_next_strict(src, len) ==
    LET p_len == PREFIX_SIZE + len IN
    IF Len(src) > p_len
    THEN LET s == split_to(advance(src, PREFIX_SIZE), len)
         IN  [src |-> s.rest, ret |-> Some(s.head)]
    ELSE [src |-> src, ret |-> None]

\* take_next: the buffer afterwards and the value returned.
take_next(src, len) ==
    LET p_len == PREFIX_SIZE + len IN
    IF Len(src) >= p_len
    THEN LET s == split_to(advance(src, PREFIX_SIZE), len)
         IN  [src |-> s.rest, ret |-> Some(s.head)]
    ELSE [src |-> src, ret |-> None]

\* Mutant of RxIterator::next: an empty frame ends the pass.
next_stop_on_empty(be, buf) ==
    LET len == read_prefix(be, buf) IN
    IF is_some(len) /\ unwrap(len) # 0
    THEN take_next(buf, unwrap(len))
    ELSE [src |-> buf, ret |-> None]

\* RxIterator::next: the buffer afterwards and the value returned.
next(be, buf) ==
    LET len == read_prefix(be, buf) IN
    IF is_some(len) THEN take_next(buf, unwrap(len)) ELSE [src |-> buf, ret |-> None]

\* The payloads handed to write_prefix: of at most MaxLen bytes, and such
\* that the frame still fits the MaxStream bytes of the wire.
Payload ==
    LET room == MaxStream - PREFIX_SIZE - Len(rxAll) - Len(wire)
    IN  Bytes(IF room < MaxLen THEN room ELSE MaxLen)

\* The sender frames one payload and puts it on the wire.
Send(p) ==
    LET v == write_prefix(bigEndian, p) IN
    /\ Len(rxAll) + Len(wire) + Len(v) <= MaxStream
    /\ tx' = Append(tx, [payload |-> p, frame |-> v])
    /\ wire' = wire \o v
    /\ UNCHANGED <<bigEndian, rxAll, inner, iterLive, drained, lastRet, pass, dst, nCalls>>
    /\ UNCHANGED <<bridgeVars, otherVars>>

\* Mutant of RxBuffer::process: the received bytes replace the residual.
Process_replace(n) ==
    LET received == SubSeq(wire, 1, n) IN
    /\ n \in 1 .. Len(wire)
    /\ wire' = advance(wire, n)
    /\ rxAll' = rxAll \o received
    /\ inner' = received
    /\ iterLive' = TRUE
    /\ drained' = FALSE
    /\ lastRet' = None
    /\ pass' = <<>>
    /\ nCalls' = nCalls + 1
    /\ UNCHANGED <<bigEndian, tx, dst>>
    /\ UNCHANGED <<bridgeVars, otherVars>>

\* RxBuffer::process on the next n bytes of the wire; the iterator of the
\* previous call, drained or not, has been dropped.
Process(n) ==
    LET received == SubSeq(wire, 1, n) IN
    /\ n \in 1 .. Len(wire)
    /\ wire' = advance(wire, n)
    /\ rxAll' = rxAll \o received
    /\ inner' = inner \o received
    /\ iterLive' = TRUE
    /\ drained' = FALSE
    /\ lastRet' = None
    /\ pass' = <<>>
    /\ nCalls' = nCalls + 1
    /\ UNCHANGED <<bigEndian, tx, dst>>
    /\ UNCHANGED <<bridgeVars, otherVars>>

\* One next() on the live iterator, as the for loop does until None.
IterNext ==
    LET r == next(bigEndian, inner) IN
    /\ iterLive
    /\ ~drained
    /\ inner' = r.src
    /\ lastRet' = r.ret
    /\ drained' = ~is_some(r.ret)
    /\ pass' = IF is_some(r.ret) THEN Append(pass, unwrap(r.ret)) ELSE pass
    /\ dst' = IF is_some(r.ret) THEN Append(dst, unwrap(r.ret)) ELSE dst
    /\ UNCHANGED <<bigEndian, tx, wire, rxAll, iterLive, nCalls>>
    /\ UNCHANGED <<bridgeVars, otherVars>>

\* A fresh RxBuffer and nothing framed yet.
InitCodec ==
    /\ tx = <<>>
    /\ wire = <<>>
    /\ rxAll = <<>>
    /\ inner = <<>>
    /\ iterLive = FALSE
    /\ drained = FALSE
    /\ lastRet = None
    /\ pass = <<>>
    /\ dst = <<>>
    /\ nCalls = 0

\* The Endpoint right after connect_to_socket returned Ok.
InitBridge ==
    /\ sockIn = <<>>
    /\ guestBytes = 0
    /\ peerClosed = FALSE
    /\ faults = 0
    /\ streamSt = "idle"
    /\ rxOwner = "endpoint"
    /\ items = <<>>
    /\ reads = 0
    /\ lastRead = "none"
    /\ epAlive = TRUE
    /\ clones = FALSE
    /\ chan = <<>>
    /\ writerPc = "recv"
    /\ cur = <<>>
    /\ written = <<>>
    /\ stopCause = "none"
    /\ nSend = 0
    /\ rejected = 0
    /\ discarded = 0
    /\ sentLog = <<>>

\* No connect call is under way: the Endpoint was built on a unix host.
IdleConnect ==
    /\ unix = TRUE
    /\ connPc = "connected"
    /\ connArg = "Socket"
    /\ opened = 1
    /\ chanMade = 1
    /\ spawned = 1
    /\ calls = <<>>

\* No gsb_endpoint call.
IdleGsb ==
    /\ gNode = <<>>
    /\ gNet = <<>>
    /\ gEp = None

\* No DeploymentNetwork converted.
IdleNet ==
    /\ v6 = FALSE
    /\ netAddr = 0
    /\ prefixLen = 0
    /\ nodeIp = 0
    /\ converted = None

\* No Network, and Interfaces that never joined one.
IdleVpn ==
    /\ netOpen = FALSE
    /\ stack = [n \in {"A", "B"} |-> "Unbound"]
    /\ assignedIp = [n \in {"A", "B"} |-> None]
    /\ device = [n \in {"A", "B"} |-> FALSE]
    /\ ports = [n \in {"A", "B"} |-> [p \in 1 .. MaxPorts |-> 0]]
    /\ inflight = [n \in {"A", "B"} |-> 0]
    /\ drops = [n \in {"A", "B"} |-> 0]
    /\ forwarded = 0
    /\ ret = [op |-> "", node |-> "", res |-> ""]

\* The requestor agent before the first market event.
IdleReq ==
    /\ offer = [t \in 1 .. MaxOffers |-> None]
    /\ offerPc = [t \in 1 .. MaxOffers |-> "none"]
    /\ marketCalls = [t \in 1 .. MaxOffers |-> <<>>]
    /\ marketRets = [t \in 1 .. MaxOffers |-> <<>>]
    /\ offerResult = [t \in 1 .. MaxOffers |-> "none"]
    /\ collecting = TRUE
    /\ agreements = <<>>
    /\ workerPc = "recv"
    /\ workerCur = None
    /\ workerLog = <<>>

IdleRest == IdleGsb /\ IdleNet /\ IdleVpn /\ IdleReq

IdleOther == IdleConnect /\ IdleRest

Init ==
    /\ bigEndian \in BOOLEAN
    /\ InitCodec
    /\ InitBridge
    /\ IdleOther

Next ==
    \/ \E p \in Payload : Send(p)
    \/ \E n \in 1 .. MaxStream : Process(n)
    \/ IterNext

Spec == Init /\ [][Next]_vars

\* --------------------------------------------------------- endpoint bridge

\* Result<Vec<u8>>
Ok(data) == [ok |-> TRUE, data |-> data]
Err == [ok |-> FALSE, data |-> <<>>]

\* The messages a sender may put on the channel: one of each length, told
\* apart by their bytes.
Msgs == {[i \in 1 .. k |-> (k + i) % ByteMod] : k \in 0 .. MaxMsgLen}

\* Every UnboundedSender of the channel has been dropped.
no_senders == ~epAlive /\ ~clones

\* ---- the guest's end of the socket

\* The guest writes its next byte.
GuestWrite ==
    /\ ~peerClosed
    /\ guestBytes < MaxGuest
    /\ sockIn' = Append(sockIn, guestBytes % ByteMod)
    /\ guestBytes' = guestBytes + 1
    /\ UNCHANGED <<peerClosed, faults, streamSt, rxOwner, items, reads, lastRead>>
    /\ UNCHANGED <<codecVars, writeVars, otherVars>>

GuestClose ==
    /\ ~peerClosed
    /\ peerClosed' = TRUE
    /\ UNCHANGED <<sockIn, guestBytes, faults, streamSt, rxOwner, items, reads, lastRead>>
    /\ UNCHANGED <<codecVars, writeVars, otherVars>>

\* ---- the read stream: futures::stream::unfold((read, buffer), ...)

\* The holder of the stream polls it: the closure starts r.read(&mut b).
PollRead ==
    /\ streamSt = "idle"
    /\ streamSt' = "reading"
    /\ UNCHANGED <<sockIn, guestBytes, peerClosed, faults, rxOwner, items, reads, lastRead>>
    /\ UNCHANGED <<codecVars, writeVars, otherVars>>

\* Ok(n) => Some((Ok(b[..n].to_vec()), (r, b))). The buffer b holds
\* BUFFER_SIZE = (DEFAULT_MAX_FRAME_SIZE + 2) * 4 >= 8 bytes, more than the
\* guest ever has pending here, so n is bounded by what is pending.
ReadData(n) ==
    /\ streamSt = "reading"
    /\ n \in 1 .. Len(sockIn)
    /\ items' = Append(items, Ok(SubSeq(sockIn, 1, n)))
    /\ sockIn' = advance(sockIn, n)
    /\ reads' = reads + 1
    /\ lastRead' = "data"
    /\ streamSt' = "idle"
    /\ UNCHANGED <<guestBytes, peerClosed, faults, rxOwner>>
    /\ UNCHANGED <<codecVars, writeVars, otherVars>>

\* Ok(0) => None
ReadEof ==
    /\ streamSt = "reading"
    /\ sockIn = <<>>
    /\ peerClosed
    /\ reads' = reads + 1
    /\ lastRead' = "eof"
    /\ streamSt' = "ended"
    /\ UNCHANGED <<sockIn, guestBytes, peerClosed, faults, rxOwner, items>>
    /\ UNCHANGED <<codecVars, writeVars, otherVars>>

\* Mutant of ReadErr: the error ends the stream.
ReadErr_ends ==
    /\ streamSt = "reading"
    /\ faults < MaxFaults
    /\ faults' = faults + 1
    /\ items' = Append(items, Err)
    /\ reads' = reads + 1
    /\ lastRead' = "error"
    /\ streamSt' = "ended"
    /\ UNCHANGED <<sockIn, guestBytes, peerClosed, rxOwner>>
    /\ UNCHANGED <<codecVars, writeVars, otherVars>>

\* Err(e) => Some((Err(e.into()), (r, b))): the error is an item, and the
\* stream keeps its state for the next poll.
ReadErr ==
    /\ streamSt = "reading"
    /\ faults < MaxFaults
    /\ faults' = faults + 1
    /\ items' = Append(items, Err)
    /\ reads' = reads + 1
    /\ lastRead' = "error"
    /\ streamSt' = "idle"
    /\ UNCHANGED <<sockIn, guestBytes, peerClosed, rxOwner>>
    /\ UNCHANGED <<codecVars, writeVars, otherVars>>

\* ---- the Endpoint: { tx, rx: Option<Box<dyn Stream>> }

\* rx.take(): the stream moves to the task that consumes it.
TakeRx ==
    /\ epAlive
    /\ rxOwner = "endpoint"
    /\ rxOwner' = "consumer"
    /\ UNCHANGED <<sockIn, guestBytes, peerClosed, faults, streamSt, items, reads, lastRead>>
    /\ UNCHANGED <<codecVars, writeVars, otherVars>>

\* The consumer drops the stream, and a pending read with it.
DropStream ==
    /\ rxOwner = "consumer"
    /\ rxOwner' = "dropped"
    /\ streamSt' = "dropped"
    /\ UNCHANGED <<sockIn, guestBytes, peerClosed, faults, items, reads, lastRead>>
    /\ UNCHANGED <<codecVars, writeVars, otherVars>>

\* The Endpoint is dropped: its tx, and the stream if rx still holds it.
DropEndpoint ==
    /\ epAlive
    /\ epAlive' = FALSE
    /\ rxOwner' = IF rxOwner = "endpoint" THEN "dropped" ELSE rxOwner
    /\ streamSt' = IF rxOwner = "endpoint" THEN "dropped" ELSE streamSt
    /\ UNCHANGED <<sockIn, guestBytes, peerClosed, faults, items, reads, lastRead>>
    /\ UNCHANGED <<clones, chan, writerPc, cur, written, stopCause, nSend, rejected, sentLog, discarded>>
    /\ UNCHANGED <<codecVars, otherVars>>

\* tx.clone(): a sender that outlives the Endpoint.
CloneTx ==
    /\ ~no_senders
    /\ ~clones
    /\ clones' = TRUE
    /\ UNCHANGED <<epAlive, chan, writerPc, cur, written, stopCause, nSend, rejected, sentLog, discarded>>
    /\ UNCHANGED <<codecVars, readVars, otherVars>>

\* The last clone is dropped.
DropClone ==
    /\ clones
    /\ clones' = FALSE
    /\ UNCHANGED <<epAlive, chan, writerPc, cur, written, stopCause, nSend, rejected, sentLog, discarded>>
    /\ UNCHANGED <<codecVars, readVars, otherVars>>

\* tx.send(item): queued while the receiver lives, refused once it is dropped.
ChanSend(item) ==
    /\ ~no_senders
    /\ nSend < MaxSend
    /\ nSend' = nSend + 1
    /\ IF writerPc = "done"
       THEN rejected' = rejected + 1 /\ chan' = chan
       ELSE rejected' = rejected /\ chan' = Append(chan, item)
    /\ sentLog' = IF writerPc # "done" /\ item.ok THEN Append(sentLog, item.data) ELSE sentLog
    /\ UNCHANGED <<epAlive, clones, writerPc, cur, written, stopCause, discarded>>
    /\ UNCHANGED <<codecVars, readVars, otherVars>>

\* ---- the writer task: tokio::task::spawn(async move { loop { ... } })

\* break: the task ends and drops rx_si with whatever is still queued.
writer_break(cause, queue) ==
    /\ writerPc' = "done"
    /\ stopCause' = cause
    /\ discarded' = Len(queue)
    /\ chan' = <<>>
    /\ cur' = <<>>

\* Mutant of WriterRecv: the message queued last is taken first.
WriterRecv_lifo ==
    /\ writerPc = "recv"
    /\ chan # <<>>
    /\ IF chan[Len(chan)].ok
       THEN /\ chan' = SubSeq(chan, 1, Len(chan) - 1)
            /\ cur' = chan[Len(chan)].data
            /\ writerPc' = IF chan[Len(chan)].data = <<>> THEN "recv" ELSE "write"
            /\ UNCHANGED <<stopCause, discarded>>
       ELSE writer_break("err_item", SubSeq(chan, 1, Len(chan) - 1))
    /\ UNCHANGED <<epAlive, clones, written, nSend, rejected, sentLog>>
    /\ UNCHANGED <<codecVars, readVars, otherVars>>

\* Some(Ok(data)) => write_all(data); Some(Err(e)) => log, break
WriterRecv ==
    /\ writerPc = "recv"
    /\ chan # <<>>
    /\ IF Head(chan).ok
       THEN /\ chan' = Tail(chan)
            /\ cur' = Head(chan).data
            /\ writerPc' = IF Head(chan).data = <<>> THEN "recv" ELSE "write"
            /\ UNCHANGED <<stopCause, discarded>>
       ELSE writer_break("err_item", Tail(chan))
    /\ UNCHANGED <<epAlive, clones, written, nSend, rejected, sentLog>>
    /\ UNCHANGED <<codecVars, readVars, otherVars>>

\* None => break
WriterClosed ==
    /\ writerPc = "recv"
    /\ chan = <<>>
    /\ no_senders
    /\ writer_break("closed", chan)
    /\ UNCHANGED <<epAlive, clones, written, nSend, rejected, sentLog>>
    /\ UNCHANGED <<codecVars, readVars, otherVars>>

\* write_all: one write() of it took k bytes.
WriterWriteSome(k) ==
    /\ writerPc = "write"
    /\ k \in 1 .. Len(cur)
    /\ written' = written \o SubSeq(cur, 1, k)
    /\ cur' = advance(cur, k)
    /\ writerPc' = IF k = Len(cur) THEN "recv" ELSE "write"
    /\ UNCHANGED <<epAlive, clones, chan, stopCause, nSend, rejected, sentLog, discarded>>
    /\ UNCHANGED <<codecVars, readVars, otherVars>>

\* Mutant of WriterWriteFail: the error is logged and the write tried again.
WriterWriteFail_retry ==
    /\ writerPc = "write"
    /\ stopCause' = "write_error"
    /\ UNCHANGED <<epAlive, clones, chan, writerPc, cur, written, nSend, rejected, sentLog, discarded>>
    /\ UNCHANGED <<codecVars, readVars, otherVars>>

\* if let Err(e) = write.write_all(..).await { log::error!(..); break; }
WriterWriteFail ==
    /\ writerPc = "write"
    /\ writer_break("write_error", chan)
    /\ UNCHANGED <<epAlive, clones, written, nSend, rejected, sentLog>>
    /\ UNCHANGED <<codecVars, readVars, otherVars>>

ReadStep == (\E n \in 1 .. MaxGuest : ReadData(n)) \/ ReadEof

WriterStep ==
    \/ WriterRecv
    \/ WriterClosed
    \/ \E k \in 1 .. MaxMsgLen : WriterWriteSome(k)

NextBridge ==
    \/ GuestWrite
    \/ GuestClose
    \/ PollRead
    \/ \E n \in 1 .. MaxGuest : ReadData(n)
    \/ ReadEof
    \/ ReadErr
    \/ TakeRx
    \/ DropStream
    \/ DropEndpoint
    \/ CloneTx
    \/ DropClone
    \/ \E item \in {Ok(m) : m \in Msgs} \cup {Err} : ChanSend(item)
    \/ WriterRecv
    \/ WriterClosed
    \/ \E k \in 1 .. MaxMsgLen : WriterWriteSome(k)
    \/ WriterWriteFail

\* The bridge alone: the codec is idle, and the bridge carries bytes as they are.
InitB ==
    /\ bigEndian = FALSE
    /\ InitCodec
    /\ InitBridge
    /\ IdleOther

SpecBridge == InitB /\ [][NextBridge]_vars

\* The runtime polls a task that can run; the socket's peer and the holders
\* of the Endpoint owe nothing.
SpecBridgeFair ==
    /\ InitB
    /\ [][NextBridge]_vars
    /\ WF_vars(WriterStep)
    /\ WF_vars(ReadStep)

\* ------------------------------------------------------- Endpoint::connect

\* The kinds of ContainerEndpoint: the local socket, and any other variant.
EndpointKinds == {"Socket", "Other"}

\* Before connect: no socket, no channel, no stream, no writer task.
NoBridge ==
    /\ sockIn = <<>>
    /\ guestBytes = 0
    /\ peerClosed = FALSE
    /\ faults = 0
    /\ streamSt = "none"
    /\ rxOwner = "none"
    /\ items = <<>>
    /\ reads = 0
    /\ lastRead = "none"
    /\ epAlive = FALSE
    /\ clones = FALSE
    /\ chan = <<>>
    /\ writerPc = "none"
    /\ cur = <<>>
    /\ written = <<>>
    /\ stopCause = "none"
    /\ nSend = 0
    /\ rejected = 0
    /\ discarded = 0
    /\ sentLog = <<>>

\* The connect call returns.
connect_returns(result) ==
    /\ calls' = Append(calls, [kind |-> connArg, result |-> result, opened |-> opened',
                               chanMade |-> chanMade', spawned |-> spawned'])
    /\ connPc' = IF result = "Ok" THEN "connected" ELSE "idle"

\* Endpoint::connect(endpoint): match endpoint.into() { ... }
Connect(kind) ==
    /\ connPc = "idle"
    /\ Len(calls) < MaxConnects
    /\ connPc' = "match"
    /\ connArg' = kind
    /\ opened' = 0
    /\ chanMade' = 0
    /\ spawned' = 0
    /\ UNCHANGED <<unix, calls>>
    /\ UNCHANGED <<bridgeVars, notConn>>

\* Mutant of ConnectUnsupported: every kind is taken for a socket path.
ConnectUnsupported_as_socket ==
    /\ connPc = "match"
    /\ connArg # "Socket"
    /\ connPc' = "connecting"
    /\ opened' = opened + 1
    /\ UNCHANGED <<unix, connArg, chanMade, spawned, calls>>
    /\ UNCHANGED <<bridgeVars, notConn>>

\* ep => Err(Error::Other(format!("Unsupported endpoint type: {:?}", ep)))
ConnectUnsupported ==
    /\ connPc = "match"
    /\ connArg # "Socket"
    /\ UNCHANGED <<unix, connArg, opened, chanMade, spawned>>
    /\ connect_returns("Unsupported endpoint type")
    /\ UNCHANGED <<bridgeVars, notConn>>

\* ContainerEndpoint::Socket(path) => Self::connect_to_socket(path), cfg(unix):
\* tokio::net::UnixStream::connect(path) is called.
ConnectToSocket ==
    /\ connPc = "match"
    /\ connArg = "Socket"
    /\ unix
    /\ connPc' = "connecting"
    /\ opened' = opened + 1
    /\ UNCHANGED <<unix, connArg, chanMade, spawned, calls>>
    /\ UNCHANGED <<bridgeVars, notConn>>

\* ContainerEndpoint::Socket(path) => Self::connect_to_socket(path),
\* cfg(not(unix)): Err(Error::Other("OS not supported"))
ConnectNotUnix ==
    /\ connPc = "match"
    /\ connArg = "Socket"
    /\ ~unix
    /\ UNCHANGED <<unix, connArg, opened, chanMade, spawned>>
    /\ connect_returns("OS not supported")
    /\ UNCHANGED <<bridgeVars, notConn>>

\* UnixStream::connect(..).await? fails: the error is returned.
SocketRefused ==
    /\ connPc = "connecting"
    /\ UNCHANGED <<unix, connArg, opened, chanMade, spawned>>
    /\ connect_returns("io error")
    /\ UNCHANGED <<bridgeVars, notConn>>

\* UnixStream::connect succeeds: io::split, unbounded_channel, the read
\* stream and the spawned writer task; Ok(Self { tx, rx }).
SocketConnected ==
    /\ connPc = "connecting"
    /\ chanMade' = chanMade + 1
    /\ spawned' = spawned + 1
    /\ UNCHANGED <<unix, connArg, opened>>
    /\ connect_returns("Ok")
    /\ streamSt' = "idle"
    /\ rxOwner' = "endpoint"
    /\ epAlive' = TRUE
    /\ writerPc' = "recv"
    /\ UNCHANGED <<sockIn, guestBytes, peerClosed, faults, items, reads, lastRead>>
    /\ UNCHANGED <<clones, chan, cur, written, stopCause, nSend, rejected, sentLog, discarded>>
    /\ UNCHANGED notConn

InitConnect ==
    /\ bigEndian = FALSE
    /\ InitCodec
    /\ NoBridge
    /\ IdleRest
    /\ unix \in BOOLEAN
    /\ connPc = "idle"
    /\ connArg = "Socket"
    /\ opened = 0
    /\ chanMade = 0
    /\ spawned = 0
    /\ calls = <<>>

NextConnect ==
    \/ \E kind \in EndpointKinds : Connect(kind)
    \/ ConnectUnsupported
    \/ ConnectToSocket
    \/ ConnectNotUnix
    \/ SocketRefused
    \/ SocketConnected

SpecConnect == InitConnect /\ [][NextConnect]_vars

\* ------------------------------------------------------------ gsb_endpoint

\* A String is the sequence of its characters.
str_net == <<"/", "n", "e", "t", "/">>
str_vpn == <<"/", "v", "p", "n", "/">>
str_udp_net == <<"/", "u", "d", "p", "/", "n", "e", "t", "/">>
str_raw == <<"/", "r", "a", "w">>

\* The placeholder {} of a format string.
Hole == <<"{", "}">>

\* format!(fmt, args..): the pieces of fmt in order, each {} replaced by the
\* next argument.
RECURSIVE format(_, _)
format(fmt, args) ==
    IF fmt = <<>> THEN <<>>
    ELSE IF Head(fmt) = Hole
         THEN Head(args) \o format(Tail(fmt), Tail(args))
         ELSE Head(fmt) \o format(Tail(fmt), args)

\* Mutant of gsb_endpoint: the arguments of the udp path are swapped.
gsb_endpoint_swapped(node_id, net_id) ==
    [tcp |-> format(<<str_net, Hole, str_vpn, Hole>>, <<node_id, net_id>>),
     udp |-> format(<<str_udp_net, Hole, str_vpn, Hole, str_raw>>, <<net_id, node_id>>)]

\* DuoEndpoint { tcp: typed::service(format!(..)), udp: typed::service(format!(..)) }
gsb_endpoint(node_id, net_id) ==
    [tcp |-> format(<<str_net, Hole, str_vpn, Hole>>, <<node_id, net_id>>),
     udp |-> format(<<str_udp_net, Hole, str_vpn, Hole, str_raw>>, <<node_id, net_id>>)]

\* What ids are made of: a letter, a slash, the separator of the paths.
IdPieces == {<<"a">>, <<"/">>, str_vpn}

RECURSIVE Concats(_)
Concats(n) ==
    IF n = 0 THEN {<<>>}
    ELSE LET shorter == Concats(n - 1)
         IN  shorter \cup {s \o q : s \in shorter, q \in IdPieces}

\* The node ids and network ids gsb_endpoint is called with.
Ids == Concats(MaxPieces)

GsbEndpoint ==
    /\ gEp = None
    /\ gEp' = Some(gsb_endpoint(gNode, gNet))
    /\ UNCHANGED <<gNode, gNet>>
    /\ UNCHANGED notGsb

InitGsb ==
    /\ bigEndian = FALSE
    /\ InitCodec
    /\ InitBridge
    /\ IdleConnect
    /\ IdleNet
    /\ IdleVpn
    /\ IdleReq
    /\ gNode \in Ids
    /\ gNet \in Ids
    /\ gEp = None

NextGsb == GsbEndpoint

SpecGsb == InitGsb /\ [][NextGsb]_vars

\* ---------------------------------------- Network from a DeploymentNetwork

\* IP addresses are the numbers of AddrBits bits.
MaxAddr == Pow(2, AddrBits) - 1
Addr == 0 .. MaxAddr

\* The addresses of one subnet: 2 ^ (host bits).
subnet_size(prefix_len) == Pow(2, AddrBits - prefix_len)

\* IpNet::network(): the address with its host bits cleared.
network(addr, prefix_len) == addr - (addr % subnet_size(prefix_len))

\* IpNet::broadcast(): the address with its host bits set.
broadcast(addr, prefix_len) == network(addr, prefix_len) + subnet_size(prefix_len) - 1

\* IpNet::netmask(): prefix_len ones, then zeros.
netmask(prefix_len) == MaxAddr - (subnet_size(prefix_len) - 1)

saturating_add(a, n) == IF a + n > MaxAddr THEN MaxAddr ELSE a + n
saturating_sub(a, n) == IF a < n THEN 0 ELSE a - n

\* Mutant of hosts: an Ipv4Net keeps its network and broadcast addresses.
hosts_all(is_v6, addr, prefix_len) ==
    [start |-> network(addr, prefix_len), end |-> broadcast(addr, prefix_len)]

\* IpNet::hosts(): the range network()..=broadcast(); an Ipv4Net shorter than
\* /31 leaves out the network address and the broadcast address.
hosts(is_v6, addr, prefix_len) ==
    IF ~is_v6 /\ prefix_len < AddrBits - 1
    THEN [start |-> saturating_add(network(addr, prefix_len), 1),
          end   |-> saturating_sub(broadcast(addr, prefix_len), 1)]
    ELSE [start |-> network(addr, prefix_len), end |-> broadcast(addr, prefix_len)]

\* Mutant of find_not: the first address of the range, whatever it is.
find_any(range, ip) ==
    IF range.start > range.end THEN None ELSE Some(range.start)

\* Iterator::find(|ip_| ip_ != &ip) on an address range, lowest first.
RECURSIVE find_not(_, _)
find_not(range, ip) ==
    IF range.start > range.end THEN None
    ELSE IF range.start # ip THEN Some(range.start)
    ELSE find_not([range EXCEPT !.start = range.start + 1], ip)

\* IpAddr::to_string(), most significant bit first.
RECURSIVE bits(_, _)
bits(a, n) == IF n = 0 THEN <<>> ELSE Append(bits(a \div 2, n - 1), a % 2)

to_string(a) == bits(a, AddrBits)

\* Network::try_from(&DeploymentNetwork)
try_from(is_v6, addr, prefix_len, node_ip) ==
    LET ip      == addr
        mask    == netmask(prefix_len)
        gateway == find_not(hosts(is_v6, addr, prefix_len), ip)
    IN  IF gateway = None
        THEN [ok |-> FALSE, error |-> <<"NetAddrTaken", ip>>]
        ELSE [ok      |-> TRUE,
              addr    |-> to_string(ip),
              gateway |-> to_string(unwrap(gateway)),
              mask    |-> to_string(mask),
              if_addr |-> to_string(node_ip)]

TryFrom ==
    /\ converted = None
    /\ converted' = Some(try_from(v6, netAddr, prefixLen, nodeIp))
    /\ UNCHANGED <<v6, netAddr, prefixLen, nodeIp>>
    /\ UNCHANGED notNet

InitNet ==
    /\ bigEndian = FALSE
    /\ InitCodec
    /\ InitBridge
    /\ IdleConnect
    /\ IdleGsb
    /\ IdleVpn
    /\ IdleReq
    /\ v6 \in BOOLEAN
    /\ netAddr \in Addr
    /\ prefixLen \in 0 .. AddrBits
    /\ nodeIp \in Addr
    /\ converted = None

NextNet == TryFrom

SpecNet == InitNet /\ [][NextNet]_vars

\* ------------------------------------------------------------- VPN stack
\* The modules declared in core/vpn/src/lib.rs (network, interface, port,
\* socket, stack, service), after sections 4.2 to 4.6 of the specification.

Nodes == {"A", "B"}

\* The subnet of the Network: the lower half of the addresses.
subnet_base == 0
subnet_prefix == 1
Subnet == network(subnet_base, subnet_prefix) .. broadcast(subnet_base, subnet_prefix)

\* The first address distinct from the network address, reserved.
gateway_ip == network(subnet_base, subnet_prefix) + 1

\* The local ports of one Interface.
PortSpace == 1 .. MaxPorts

Min(S) == CHOOSE x \in S : \A y \in S : x <= y

\* The addresses assigned to the Interfaces of the Network.
assigned == {unwrap(assignedIp[n]) : n \in {m \in Nodes : assignedIp[m] # None}}

\* Mutant of allocate: an address already assigned is handed out again.
allocate_again(requested_ip) ==
    IF requested_ip \notin Subnet
    THEN [res |-> "AddressOutOfRange", ip |-> None]
    ELSE [res |-> "Ok", ip |-> Some(requested_ip)]

\* AddressSpace::allocate(requested_ip)
allocate(requested_ip) ==
    IF requested_ip \notin Subnet
    THEN [res |-> "AddressOutOfRange", ip |-> None]
    ELSE IF requested_ip \in assigned \cup {gateway_ip}
    THEN [res |-> "AddressTaken", ip |-> None]
    ELSE [res |-> "Ok", ip |-> Some(requested_ip)]

\* AddressSpace::allocate_next(): the lowest unused address from gateway + 1,
\* short of the broadcast address.
allocate_next ==
    LET unused == {a \in Subnet :
                      /\ a >= gateway_ip + 1
                      /\ a < broadcast(subnet_base, subnet_prefix)
                      /\ a \notin assigned}
    IN  IF unused = {}
        THEN [res |-> "AddressSpaceExhausted", ip |-> None]
        ELSE [res |-> "Ok", ip |-> Some(Min(unused))]

\* An Interface is bound to the Network from join until its Stack is Closed.
bound(n) == stack[n] \in {"Bound", "Draining"}

\* The node the Network's member table has at address dest, if any.
routable(dest) == \E m \in Nodes : bound(m) /\ assignedIp[m] = Some(dest)

returns(op, n, res) == ret' = [op |-> op, node |-> n, res |-> res]

\* Service::create_network(cidr)
create_network(well_formed) ==
    /\ ~netOpen
    /\ IF well_formed
       THEN netOpen' = TRUE /\ returns("create_network", "", "Ok")
       ELSE netOpen' = netOpen /\ returns("create_network", "", "InvalidCidr")
    /\ UNCHANGED <<stack, assignedIp, device, ports, inflight, drops, forwarded>>
    /\ UNCHANGED notVpn

\* Mutant of destroy_network: the Network goes whoever is bound to it.
destroy_network_anyway ==
    /\ netOpen' = FALSE
    /\ returns("destroy_network", "", "Ok")
    /\ UNCHANGED <<stack, assignedIp, device, ports, inflight, drops, forwarded>>
    /\ UNCHANGED notVpn

\* Service::destroy_network(id)
destroy_network ==
    /\ IF netOpen /\ \E n \in Nodes : bound(n)
       THEN netOpen' = netOpen /\ returns("destroy_network", "", "NetworkInUse")
       ELSE netOpen' = FALSE /\ returns("destroy_network", "", "Ok")
    /\ UNCHANGED <<stack, assignedIp, device, ports, inflight, drops, forwarded>>
    /\ UNCHANGED notVpn

\* Service::join(network_id, node_id, requested_ip): Interface::bind
join(n, requested_ip) ==
    /\ netOpen
    /\ LET a == IF requested_ip = None THEN allocate_next
                ELSE allocate(unwrap(requested_ip))
           res == CASE stack[n] = "Closed" -> "InterfaceClosed"
                    [] bound(n) -> "AlreadyBound"
                    [] OTHER -> a.res
       IN  /\ returns("join", n, res)
           /\ IF res = "Ok"
              THEN /\ assignedIp' = [assignedIp EXCEPT ![n] = a.ip]
                   /\ stack' = [stack EXCEPT ![n] = "Bound"]
                   /\ device' = [device EXCEPT ![n] = TRUE]
              ELSE UNCHANGED <<assignedIp, stack, device>>
    /\ UNCHANGED <<netOpen, ports, inflight, drops, forwarded>>
    /\ UNCHANGED notVpn

\* Service::leave(network_id, node_id): the Stack starts draining.
leave(n) ==
    /\ netOpen
    /\ stack[n] # "Unbound"
    /\ IF stack[n] = "Closed"
       THEN stack' = stack /\ returns("leave", n, "InterfaceClosed")
       ELSE stack' = [stack EXCEPT ![n] = "Draining"] /\ returns("leave", n, "Ok")
    /\ UNCHANGED <<netOpen, assignedIp, device, ports, inflight, drops, forwarded>>
    /\ UNCHANGED notVpn

\* Mutant of drain_complete: the address allocation is kept.
drain_complete_keeps_ip(n) ==
    /\ stack[n] = "Draining"
    /\ inflight[n] = 0
    /\ stack' = [stack EXCEPT ![n] = "Closed"]
    /\ device' = [device EXCEPT ![n] = FALSE]
    /\ ports' = [ports EXCEPT ![n] = [p \in PortSpace |-> 0]]
    /\ returns("drained", n, "Ok")
    /\ UNCHANGED <<netOpen, assignedIp, inflight, drops, forwarded>>
    /\ UNCHANGED notVpn

\* The in-flight packets are through: the Stack closes and lets go of the
\* Device and of the address.
drain_complete(n) ==
    /\ stack[n] = "Draining"
    /\ inflight[n] = 0
    /\ stack' = [stack EXCEPT ![n] = "Closed"]
    /\ device' = [device EXCEPT ![n] = FALSE]
    /\ assignedIp' = [assignedIp EXCEPT ![n] = None]
    /\ ports' = [ports EXCEPT ![n] = [p \in PortSpace |-> 0]]
    /\ returns("drained", n, "Ok")
    /\ UNCHANGED <<netOpen, inflight, drops, forwarded>>
    /\ UNCHANGED notVpn

\* The local ports of the open sockets of an Interface.
open_ports(n) == {p \in PortSpace : ports[n][p] > 0}

\* Mutant of open: the lowest port, open or not.
open_lowest(n) ==
    /\ stack[n] # "Unbound"
    /\ CASE stack[n] = "Closed" ->
              /\ returns("open", n, "InterfaceClosed")
              /\ ports' = ports
         [] stack[n] = "Draining" ->
              /\ returns("open", n, "Refused")
              /\ ports' = ports
         [] OTHER ->
              /\ returns("open", n, "Ok")
              /\ ports' = [ports EXCEPT ![n][Min(PortSpace)] = @ + 1]
    /\ UNCHANGED <<netOpen, stack, assignedIp, device, inflight, drops, forwarded>>
    /\ UNCHANGED notVpn

\* PortTable::open(protocol, remote_node, remote_port) -> local_port: an
\* unused local port, here the lowest. A draining Stack refuses; the
\* specification names no error for it.
open(n) ==
    /\ stack[n] # "Unbound"
    /\ CASE stack[n] = "Closed" ->
              /\ returns("open", n, "InterfaceClosed")
              /\ ports' = ports
         [] stack[n] = "Draining" ->
              /\ returns("open", n, "Refused")
              /\ ports' = ports
         [] open_ports(n) = PortSpace ->
              /\ returns("open", n, "PortsExhausted")
              /\ ports' = ports
         [] OTHER ->
              LET p == Min(PortSpace \ open_ports(n)) IN
              /\ returns("open", n, "Ok")
              /\ ports' = [ports EXCEPT ![n][p] = @ + 1]
    /\ UNCHANGED <<netOpen, stack, assignedIp, device, inflight, drops, forwarded>>
    /\ UNCHANGED notVpn

\* PortTable::close(local_port)
close(n, p) ==
    /\ stack[n] # "Unbound"
    /\ IF stack[n] = "Closed"
       THEN /\ returns("close", n, "InterfaceClosed")
            /\ ports' = ports
       ELSE /\ ports[n][p] > 0
            /\ returns("close", n, "Ok")
            /\ ports' = [ports EXCEPT ![n][p] = @ - 1]
    /\ UNCHANGED <<netOpen, stack, assignedIp, device, inflight, drops, forwarded>>
    /\ UNCHANGED notVpn

\* The Stack reclaims an idle socket.
reclaim(n, p) ==
    /\ stack[n] = "Bound"
    /\ ports[n][p] > 0
    /\ returns("reclaim", n, "Ok")
    /\ ports' = [ports EXCEPT ![n][p] = @ - 1]
    /\ UNCHANGED <<netOpen, stack, assignedIp, device, inflight, drops, forwarded>>
    /\ UNCHANGED notVpn

\* The packets the Devices have handed to their Stacks.
packets == forwarded + drops["A"] + drops["B"]

\* Mutant of send: a packet to nowhere is an error of the sender.
send_strict(n, dest) ==
    /\ stack[n] \in {"Bound", "Closed"}
    /\ IF stack[n] = "Closed"
       THEN /\ returns("send", n, "InterfaceClosed")
            /\ UNCHANGED <<inflight, drops, forwarded>>
       ELSE /\ packets < MaxPackets
            /\ IF routable(dest)
               THEN /\ returns("send", n, "Ok")
                    /\ forwarded' = forwarded + 1
                    /\ inflight' = [inflight EXCEPT ![n] = @ + 1]
                    /\ drops' = drops
               ELSE /\ returns("send", n, "NodeNotFound")
                    /\ drops' = [drops EXCEPT ![n] = @ + 1]
                    /\ UNCHANGED <<inflight, forwarded>>
    /\ UNCHANGED <<netOpen, stack, assignedIp, device, ports>>
    /\ UNCHANGED notVpn

\* Device::send(packet): the Stack routes a packet of the unit.
send(n, dest) ==
    /\ stack[n] \in {"Bound", "Closed"}
    /\ IF stack[n] = "Closed"
       THEN /\ returns("send", n, "InterfaceClosed")
            /\ UNCHANGED <<inflight, drops, forwarded>>
       ELSE /\ packets < MaxPackets
            /\ returns("send", n, "Ok")
            /\ IF routable(dest)
               THEN /\ forwarded' = forwarded + 1
                    /\ inflight' = [inflight EXCEPT ![n] = @ + 1]
                    /\ drops' = drops
               ELSE /\ drops' = [drops EXCEPT ![n] = @ + 1]
                    /\ UNCHANGED <<inflight, forwarded>>
    /\ UNCHANGED <<netOpen, stack, assignedIp, device, ports>>
    /\ UNCHANGED notVpn

\* A forwarded packet has reached its bus endpoint.
complete(n) ==
    /\ inflight[n] > 0
    /\ inflight' = [inflight EXCEPT ![n] = @ - 1]
    /\ returns("complete", n, "Ok")
    /\ UNCHANGED <<netOpen, stack, assignedIp, device, ports, drops, forwarded>>
    /\ UNCHANGED notVpn

InitVpn ==
    /\ bigEndian = FALSE
    /\ InitCodec
    /\ InitBridge
    /\ IdleConnect
    /\ IdleGsb
    /\ IdleNet
    /\ IdleVpn
    /\ IdleReq

\* The addresses asked for and written to: the gateway, the two after it, the
\* last of the subnet and the first beyond it.
Probes ==
    {gateway_ip, gateway_ip + 1, gateway_ip + 2,
     broadcast(subnet_base, subnet_prefix), broadcast(subnet_base, subnet_prefix) + 1} \cap Addr

ServiceStep ==
    \/ \E well_formed \in BOOLEAN : create_network(well_formed)
    \/ destroy_network
    \/ \E n \in Nodes, r \in {None} \cup {Some(a) : a \in Probes} : join(n, r)
    \/ \E n \in Nodes : leave(n)

\* The task of one Stack.
StackTask(n) == drain_complete(n) \/ complete(n)

StackStep == \E n \in Nodes : StackTask(n)

\* The nodes whose unit is attached to its Device: the local participant.
\* The other nodes are seen through the Service and the member table only.
Units == {"A"}

UnitStep ==
    \/ \E n \in Units : open(n)
    \/ \E n \in Units, p \in PortSpace : close(n, p)
    \/ \E n \in Units, p \in PortSpace : reclaim(n, p)
    \/ \E n \in Units, dest \in Probes : send(n, dest)

NextVpn == ServiceStep \/ StackStep \/ UnitStep

SpecVpn == InitVpn /\ [][NextVpn]_vars

\* Each Stack's own task is scheduled: in-flight packets get through and a
\* draining Stack closes.
SpecVpnFair == SpecVpn /\ \A n \in Nodes : WF_vars(StackTask(n))

\* ------------------------------------------------------- requestor agent
\* agent/requestor/src/main.rs: the offer tasks of spawn_workers, each running
\* process_offer, and the agreement worker of main. The tasks run on one
\* Arbiter and interleave at their awaits only.

\* The offer tasks, one per ProposalEvent.
OfferTasks == 1 .. MaxOffers

\* offer.state as process_offer tells it apart: absent, ProposalState::Initial,
\* or any other ProposalState.
ProposalStates == {"None", "Initial", "Other"}

\* The proposals an event can carry: the state, whether prev_proposal_id is
\* set, whether proposal_id is set.
Proposals == [state : ProposalStates, prev : BOOLEAN, has_id : BOOLEAN]

\* The proposals of a negotiation under way: a fresh offer and the provider's
\* answer to the counter proposal.
Negotiated ==
    {[state |-> "Initial", prev |-> FALSE, has_id |-> TRUE],
     [state |-> "Other", prev |-> TRUE, has_id |-> TRUE]}

\* offer.state.unwrap_or(ProposalState::Initial) == ProposalState::Initial
is_initial(p) == p.state \in {"None", "Initial"}

\* The task t is over with this value of process_offer; an AgreementId goes
\* to the channel (tx.send(id).await on a fresh clone of tx is ready at once),
\* anything else is logged.
offer_returns(t, value) ==
    /\ offerPc' = [offerPc EXCEPT ![t] = "ended"]
    /\ offerResult' = [offerResult EXCEPT ![t] = value]
    /\ agreements' = IF value = "AgreementId" THEN Append(agreements, t) ELSE agreements

\* The task t calls the market and awaits the answer.
market_call(t, api) ==
    /\ offerPc' = [offerPc EXCEPT ![t] = api]
    /\ marketCalls' = [marketCalls EXCEPT ![t] = Append(@, api)]
    /\ UNCHANGED <<offerResult, agreements>>

\* process_offer up to its first await (lines 79 to 97); counter_demand
\* builds the counter proposal or fails.
process_offer(t, p, demand_ok) ==
    IF ~p.has_id THEN offer_returns(t, "Error") /\ marketCalls' = marketCalls
    ELSE IF is_initial(p)
    THEN IF p.prev \/ ~demand_ok
         THEN offer_returns(t, "Error") /\ marketCalls' = marketCalls
         ELSE market_call(t, "counter_proposal")
    ELSE market_call(t, "create_agreement")

\* spawn_workers: collect() brought a ProposalEvent and a task is spawned for
\* it; the task runs to its first await.
Spawn(t, p, demand_ok) ==
    /\ collecting
    /\ offer[t] = None
    /\ \A u \in 1 .. t - 1 : offer[u] # None
    /\ offer' = [offer EXCEPT ![t] = Some(p)]
    /\ process_offer(t, p, demand_ok)
    /\ marketRets' = marketRets
    /\ UNCHANGED <<collecting, workerPc, workerCur, workerLog>>
    /\ UNCHANGED notReq

\* One ProposalEvent with any proposal.
SpawnAny == \E p \in Proposals, demand_ok \in BOOLEAN : Spawn(1, p, demand_ok)

\* ProposalEvents of a negotiation.
SpawnNegotiated ==
    \E t \in OfferTasks, p \in Negotiated, demand_ok \in BOOLEAN : Spawn(t, p, demand_ok)

\* collect().await? failed: spawn_workers returns and drops its tx.
CollectFails ==
    /\ collecting
    /\ collecting' = FALSE
    /\ UNCHANGED <<offer, offerPc, marketCalls, marketRets, offerResult, agreements>>
    /\ UNCHANGED <<workerPc, workerCur, workerLog>>
    /\ UNCHANGED notReq

\* The market has answered the call the task t awaits.
market_returns(t, api, ok) ==
    /\ offerPc[t] = api
    /\ marketRets' = [marketRets EXCEPT ![t] = Append(@, ok)]
    /\ UNCHANGED <<offer, collecting, workerPc, workerCur, workerLog>>
    /\ UNCHANGED notReq

\* counter_proposal(..).await?; return Ok(ProposalId(new_proposal_id))
CounterProposalReturns(t, ok) ==
    /\ market_returns(t, "counter_proposal", ok)
    /\ offer_returns(t, IF ok THEN "ProposalId" ELSE "Error")
    /\ marketCalls' = marketCalls

\* Mutant of CreateAgreementReturns: the answer is not looked at.
CreateAgreementReturns_unchecked(t, ok) ==
    /\ market_returns(t, "create_agreement", ok)
    /\ market_call(t, "confirm_agreement")

\* let _ack = create_agreement(&new_agreement).await?; confirm_agreement(..)
CreateAgreementReturns(t, ok) ==
    /\ market_returns(t, "create_agreement", ok)
    /\ IF ok THEN market_call(t, "confirm_agreement")
       ELSE offer_returns(t, "Error") /\ marketCalls' = marketCalls

\* confirm_agreement(..).await?; wait_for_approval(..)
ConfirmAgreementReturns(t, ok) ==
    /\ market_returns(t, "confirm_agreement", ok)
    /\ IF ok THEN market_call(t, "wait_for_approval")
       ELSE offer_returns(t, "Error") /\ marketCalls' = marketCalls

\* wait_for_approval(..).await?; Ok(AgreementId(new_agreement_id))
WaitForApprovalReturns(t, ok) ==
    /\ market_returns(t, "wait_for_approval", ok)
    /\ offer_returns(t, IF ok THEN "AgreementId" ELSE "Error")
    /\ marketCalls' = marketCalls

OfferStep ==
    \E t \in OfferTasks, ok \in BOOLEAN :
        \/ CounterProposalReturns(t, ok)
        \/ CreateAgreementReturns(t, ok)
        \/ ConfirmAgreementReturns(t, ok)
        \/ WaitForApprovalReturns(t, ok)

\* Some Sender is left: the tx of spawn_workers or the clone of a live task.
senders_left == collecting \/ \E t \in OfferTasks : offerPc[t] \notin {"none", "ended"}

worker_step(pc, handled, events) ==
    /\ workerPc' = pc
    /\ workerCur' = handled
    /\ workerLog' = workerLog \o events
    /\ UNCHANGED <<offer, offerPc, marketCalls, marketRets, offerResult, collecting>>
    /\ UNCHANGED notReq

\* while let Some(id) = rx.next().await { process_agreement(.., id.clone(), ..)
WorkerRecv ==
    /\ workerPc = "recv"
    /\ agreements # <<>>
    /\ agreements' = Tail(agreements)
    /\ worker_step("process", Some(Head(agreements)),
                   <<[ev |-> "received", id |-> Head(agreements)],
                     [ev |-> "process_agreement", id |-> Head(agreements)]>>)

\* rx.next() yields None: every Sender is gone and nothing is queued.
WorkerEnds ==
    /\ workerPc = "recv"
    /\ agreements = <<>>
    /\ ~senders_left
    /\ agreements' = agreements
    /\ worker_step("ended", None, <<>>)

\* Mutant of ProcessAgreementReturns: a failed agreement is not terminated.
ProcessAgreementReturns_skip(ok) ==
    /\ workerPc = "process"
    /\ agreements' = agreements
    /\ IF ok
       THEN worker_step("terminate", workerCur,
                        <<[ev |-> "process_returned", id |-> unwrap(workerCur), ok |-> ok],
                          [ev |-> "terminate_agreement", id |-> unwrap(workerCur)]>>)
       ELSE worker_step("recv", None,
                        <<[ev |-> "process_returned", id |-> unwrap(workerCur), ok |-> ok]>>)

\* process_agreement returned, Ok or Err (logged);
\* market_api.terminate_agreement(&id) is called.
ProcessAgreementReturns(ok) ==
    /\ workerPc = "process"
    /\ agreements' = agreements
    /\ worker_step("terminate", workerCur,
                   <<[ev |-> "process_returned", id |-> unwrap(workerCur), ok |-> ok],
                     [ev |-> "terminate_agreement", id |-> unwrap(workerCur)]>>)

\* terminate_agreement answered; the result is logged and the loop goes on.
TerminateReturns ==
    /\ workerPc = "terminate"
    /\ agreements' = agreements
    /\ worker_step("recv", None, <<[ev |-> "terminated", id |-> unwrap(workerCur)]>>)

WorkerStep ==
    \/ WorkerRecv
    \/ WorkerEnds
    \/ \E ok \in BOOLEAN : ProcessAgreementReturns(ok)
    \/ TerminateReturns

InitReq ==
    /\ bigEndian = FALSE
    /\ InitCodec
    /\ InitBridge
    /\ IdleConnect
    /\ IdleGsb
    /\ IdleNet
    /\ IdleVpn
    /\ IdleReq

\* One proposal event of any kind.
NextOffer == SpawnAny \/ CollectFails \/ OfferStep \/ WorkerStep

SpecOffer == InitReq /\ [][NextOffer]_vars

\* Several proposal events of a negotiation, their tasks running together.
NextReq == SpawnNegotiated \/ CollectFails \/ OfferStep \/ WorkerStep

SpecReq == InitReq /\ [][NextReq]_vars

\* ------------------------------------------------- frame codec: properties

\* `for item in buf.process(s)` on a buffer holding b: every item yielded
\* until next() returns None.
RECURSIVE drain(_, _)
drain(be, b) ==
    LET r == next(be, b) IN
    IF is_some(r.ret) THEN <<unwrap(r.ret)>> \o drain(be, r.src) ELSE <<>>

\* The wire format: b starts with a 2-byte prefix L followed by at least L bytes.
complete_frame(be, b) ==
    /\ Len(b) >= PREFIX_SIZE
    /\ Len(b) - PREFIX_SIZE >= from_ne_bytes(be, SubSeq(b, 1, PREFIX_SIZE))

Payloads == [i \in 1 .. Len(tx) |-> tx[i].payload]

AllFit == \A i \in 1 .. Len(tx) : Len(tx[i].payload) < PrefixMod

\* C1: round trip. When every payload framed by write_prefix is shorter than
\* 2^16 (PrefixMod) and all framed bytes have been fed to process() in chunks
\* of any sizes and the last iterator is drained, the items yielded over all
\* calls are exactly the payloads, in order (for one payload p: [p]).
C1_RoundTrip == (wire = <<>> /\ drained /\ AllFit) => dst = Payloads

\* One payload of the largest length that fits, delivered in three chunks.
C1_Witness ==
    /\ Len(tx) = 1
    /\ Len(tx[1].payload) = PrefixMod - 1
    /\ nCalls >= 3
    /\ wire = <<>>
    /\ drained
    /\ dst = <<tx[1].payload>>

\* C2: chunking independence. Whatever the chunks, the items yielded so far
\* are a prefix of what one process() call on the whole received stream
\* yields, and once the iterator is drained they are all of it.
C2_ChunkingIndependence ==
    LET whole == drain(bigEndian, rxAll) IN
    /\ Len(dst) <= Len(whole)
    /\ dst = SubSeq(whole, 1, Len(dst))
    /\ drained => dst = whole

\* Two frames and a partial one, received in three chunks or more.
C2_Witness ==
    /\ nCalls >= 3
    /\ drained
    /\ Len(dst) >= 2
    /\ inner # <<>>
    /\ dst = drain(bigEndian, rxAll)

\* C3 (as claimed): write_prefix emits a frame only for a payload whose
\* length fits the prefix, and the prefix of every emitted frame is the
\* payload's true length.
C3_EncodeRejectsOversize ==
    \A i \in 1 .. Len(tx) :
        /\ Len(tx[i].payload) < PrefixMod
        /\ read_prefix(bigEndian, tx[i].frame) = Some(Len(tx[i].payload))

\* C4: whenever the live iterator has returned None, the residual buffer
\* holds no complete frame.
C4_DrainedHoldsNoFrame == drained => ~complete_frame(bigEndian, inner)

\* Drained on a second call or later, with a prefix and part of its payload left.
C4_Witness ==
    /\ drained
    /\ nCalls >= 2
    /\ Len(dst) >= 1
    /\ Len(inner) > PREFIX_SIZE

\* C5: a next() on a buffer that holds no complete frame returns None and
\* leaves the buffer as it was, so the same prefix is read again.
C5_IncompleteUntouched ==
    [][(IterNext /\ ~complete_frame(bigEndian, inner))
        => /\ lastRet' = None
           /\ inner' = inner
           /\ read_prefix(bigEndian, inner') = read_prefix(bigEndian, inner)]_vars

\* A prefix L > 0 with fewer than L bytes behind it survived a drained pass
\* and was read again by the next one.
C5_Witness ==
    /\ drained
    /\ nCalls >= 2
    /\ pass = <<>>
    /\ Len(inner) >= PREFIX_SIZE
    /\ ~complete_frame(bigEndian, inner)

\* C6: a next() on a buffer that starts with the prefix 0 returns an empty
\* message, removes exactly the two prefix bytes and does not end the pass.
C6_ZeroLength ==
    [][(IterNext /\ read_prefix(bigEndian, inner) = Some(0))
        => /\ lastRet' = Some(<<>>)
           /\ ~drained'
           /\ inner' = advance(inner, PREFIX_SIZE)
           /\ pass' = Append(pass, <<>>)
           /\ dst' = Append(dst, <<>>)]_vars

\* An empty frame and a non-empty one after it, yielded by the same pass.
C6_Witness ==
    /\ nCalls = 1
    /\ Len(pass) >= 2
    /\ pass[1] = <<>>
    /\ pass[2] # <<>>

\* ---------------------------------------------- endpoint bridge: properties

\* The last read of the socket returned an error or 0 bytes.
read_failed == lastRead \in {"eof", "error"}

\* The writer task left its loop on a failure: a failed write or an Err item.
writer_failed == stopCause \in {"write_error", "err_item"}

\* C7 (as claimed): once a read of the socket has returned an error or 0
\* bytes, the inbound stream is over: no further read returns and no further
\* item is yielded.
C7_InboundTerminates ==
    [][read_failed => (reads' = reads /\ items' = items)]_vars

\* C8 (as claimed): a failure in one direction stops the other: after the
\* writer task has stopped on a write failure no read returns and no item is
\* yielded, and after a read has failed or ended nothing more is written.
C8_FailureTearsDownBridge ==
    [][/\ stopCause = "write_error" => (reads' = reads /\ items' = items)
       /\ read_failed => written' = written]_vars

\* C9: the first failed write, or an Err item taken from the channel, ends
\* the writer task; from then on the task stays ended, nothing is queued for
\* it and not one more byte reaches the socket.
C9_WriterStopsOnFailure ==
    /\ [](writer_failed => (writerPc = "done" /\ chan = <<>>))
    /\ [][writer_failed
           => (written' = written /\ writerPc' = "done" /\ chan' = <<>>)]_vars

\* A write failed after part of a message was written, and a message was
\* sent afterwards.
C9_Witness ==
    /\ stopCause = "write_error"
    /\ Len(written) >= 1
    /\ rejected >= 1

\* C10 (as claimed): once the Endpoint and every sender are dropped, the
\* writer task ends and no task stays suspended in a read of the socket.
C10_CancellationLiveness ==
    no_senders ~> (writerPc = "done" /\ streamSt # "reading")

\* The writer's half of C10: with every sender dropped the writer task ends.
WriterEndsWhenClosed == no_senders ~> (writerPc = "done")

\* ---------------------------------------------- Endpoint::connect: properties

\* C11: a connect call on a kind other than the local socket opens no
\* transport, creates no channel and spawns no task, while it runs and when
\* it has returned, and returns the unsupported-endpoint error; a transport
\* is opened only by calls on ContainerEndpoint::Socket.
C11_UnsupportedEndpoint ==
    /\ (connPc # "idle" /\ connArg # "Socket")
        => (connPc = "match" /\ opened = 0 /\ chanMade = 0 /\ spawned = 0)
    /\ \A i \in 1 .. Len(calls) :
        /\ calls[i].kind # "Socket"
            => /\ calls[i].result = "Unsupported endpoint type"
               /\ calls[i].opened = 0
               /\ calls[i].chanMade = 0
               /\ calls[i].spawned = 0
        /\ calls[i].opened > 0 => calls[i].kind = "Socket"
    /\ connPc = "idle" => NoBridge

\* A call on another kind has failed, and a call on a socket has connected.
C11_Witness ==
    /\ connPc = "connected"
    /\ InitBridge
    /\ \E i \in 1 .. Len(calls) : calls[i].kind # "Socket"

\* ------------------------------------------------- gsb_endpoint: properties

has_slash(s) == \E i \in 1 .. Len(s) : s[i] = "/"

\* The endpoint returned has exactly the two paths of the bus interface, and
\* they differ.
gsb_paths_exact ==
    gEp # None =>
        /\ unwrap(gEp).tcp = str_net \o gNode \o str_vpn \o gNet
        /\ unwrap(gEp).udp = str_udp_net \o gNode \o str_vpn \o gNet \o str_raw
        /\ unwrap(gEp).tcp # unwrap(gEp).udp

\* No other (node, network) pair among `others` has a path of this endpoint.
gsb_paths_unique_among(others) ==
    gEp # None =>
        \A n \in others, w \in Ids :
            <<n, w>> # <<gNode, gNet>> =>
                LET e == gsb_endpoint(n, w) IN
                /\ e.tcp # unwrap(gEp).tcp
                /\ e.udp # unwrap(gEp).udp
                /\ e.tcp # unwrap(gEp).udp
                /\ e.udp # unwrap(gEp).tcp

\* C12 (as claimed): the paths are exact, differ from each other, and no
\* other (node, network) pair has the same paths.
C12_PathsExactAndUnique == gsb_paths_exact /\ gsb_paths_unique_among(Ids)

\* C12 (amended): the paths are exact and differ from each other, and pairs
\* whose node ids hold no '/' have paths of their own.
C12_PathsExactUniqueNoSlash ==
    /\ gsb_paths_exact
    /\ ~has_slash(gNode) => gsb_paths_unique_among({n \in Ids : ~has_slash(n)})

\* An endpoint for a plain node id and a network id.
C12_Witness ==
    /\ gEp # None
    /\ gNode = <<"a">>
    /\ gNet = <<"a", "a">>

\* ------------------------------------------- gateway derivation: properties

\* The host addresses of the subnet of the network being converted.
subnet_hosts ==
    {a \in network(netAddr, prefixLen) .. broadcast(netAddr, prefixLen) :
        \/ v6
        \/ prefixLen >= AddrBits - 1
        \/ a \notin {network(netAddr, prefixLen), broadcast(netAddr, prefixLen)}}

\* The host addresses that differ from the address of the network.
gateway_candidates == subnet_hosts \ {netAddr}

VpnState == <<netOpen, stack, assignedIp, device, ports, inflight, drops, forwarded>>

\* The assigned addresses are pairwise distinct and inside the subnet.
AddressesUnique ==
    \A m \in Nodes :
        assignedIp[m] # None =>
            /\ unwrap(assignedIp[m]) \in Subnet
            /\ \A n \in Nodes \ {m} : assignedIp[n] # assignedIp[m]

\* C14: the assigned addresses stay pairwise distinct and inside the subnet;
\* a join asking for an address outside the subnet fails with
\* AddressOutOfRange, one asking for an assigned address fails with
\* AddressTaken, and a failed join changes no assignment.
C14_AddressUniqueness ==
    [][/\ AddressesUnique'
       /\ \A n \in Nodes, a \in Addr :
           (ret'.op = "join" /\ stack[n] = "Unbound" /\ join(n, Some(a))) =>
               /\ a \notin Subnet => ret'.res = "AddressOutOfRange"
               /\ (a \in Subnet /\ a \in assigned) => ret'.res = "AddressTaken"
               /\ ret'.res # "Ok" => assignedIp' = assignedIp
               /\ ret'.res = "Ok" => assignedIp'[n] = Some(a)]_vars

\* Node B was refused an address while node A holds the one after the gateway.
C14_Witness ==
    /\ assignedIp["A"] = Some(gateway_ip + 1)
    /\ stack["B"] = "Unbound"
    /\ ret = [op |-> "join", node |-> "B", res |-> "AddressTaken"]

\* C15: no two open sockets of an Interface share a local port; an open on a
\* bound Interface with a free port succeeds with a port no open socket has,
\* and with no free port it fails with PortsExhausted and opens nothing.
C15_PortTable ==
    [][\A n \in Nodes :
        /\ \A p \in PortSpace : ports'[n][p] <= 1
        /\ (ret'.op = "open" /\ stack[n] = "Bound" /\ open(n)) =>
            IF open_ports(n) = PortSpace
            THEN ret'.res = "PortsExhausted" /\ ports' = ports
            ELSE /\ ret'.res = "Ok"
                 /\ \E p \in PortSpace \ open_ports(n) :
                     ports' = [ports EXCEPT ![n][p] = 1]]_vars

\* Every port of node A is open and one more open was refused.
C15_Witness ==
    /\ open_ports("A") = PortSpace
    /\ stack["A"] = "Bound"
    /\ ret = [op |-> "open", node |-> "A", res |-> "PortsExhausted"]

rank(st) ==
    CASE st = "Unbound" -> 0 [] st = "Bound" -> 1 [] st = "Draining" -> 2 [] st = "Closed" -> 3

\* One step of the life of the Stack of node n.
lifecycle_step(n) ==
    /\ rank(stack'[n]) \in {rank(stack[n]), rank(stack[n]) + 1}
    /\ (ret'.op = "leave" /\ stack[n] = "Bound" /\ leave(n)) => stack'[n] = "Draining"
    /\ (ret'.op = "open" /\ stack[n] = "Draining" /\ open(n)) =>
           ret'.res # "Ok" /\ ports' = ports
    /\ stack'[n] = "Closed" => ~device'[n] /\ assignedIp'[n] = None
    /\ stack[n] = "Closed" =>
        /\ stack'[n] = "Closed"
        /\ ret'.node = n => (ret'.res = "InterfaceClosed" /\ VpnState' = VpnState)

\* C16: a Stack goes Unbound, Bound, Draining, Closed and never back; leave
\* puts it in Draining, where no socket is opened; from Draining it reaches
\* Closed, with the Device and the address released; a Closed Stack answers
\* every operation with InterfaceClosed and changes no more.
C16_StackLifecycle ==
    /\ [][\A n \in Nodes : lifecycle_step(n)]_vars
    /\ \A n \in Nodes : (stack[n] = "Draining") ~> (stack[n] = "Closed")

\* Node A's Stack is Closed and has turned a packet away.
C16_Witness ==
    /\ stack["A"] = "Closed"
    /\ ~device["A"]
    /\ ret = [op |-> "send", node |-> "A", res |-> "InterfaceClosed"]

\* C17: destroy_network fails with NetworkInUse and changes nothing while an
\* Interface is bound to the Network; with none bound it succeeds.
C17_DestroyNetworkInUse ==
    [][(ret'.op = "destroy_network" /\ netOpen /\ destroy_network) =>
        IF \E n \in Nodes : bound(n)
        THEN ret'.res = "NetworkInUse" /\ VpnState' = VpnState
        ELSE ret'.res = "Ok" /\ ~netOpen']_vars

\* destroy_network was refused with node A bound.
C17_Witness ==
    /\ netOpen
    /\ bound("A")
    /\ assignedIp["A"] # None
    /\ ret = [op |-> "destroy_network", node |-> "", res |-> "NetworkInUse"]

\* C18: a packet of a bound Stack to an address no member has is counted as
\* one routing drop: nothing is forwarded, the sender gets no error and the
\* Stack stays Bound.
C18_UnroutableDropped ==
    [][\A n \in Nodes, d \in Addr :
        (ret'.op = "send" /\ stack[n] = "Bound" /\ ~routable(d) /\ send(n, d)) =>
            /\ drops' = [drops EXCEPT ![n] = @ + 1]
            /\ forwarded' = forwarded
            /\ inflight' = inflight
            /\ ret'.res = "Ok"
            /\ stack'[n] = "Bound"]_vars

\* Node A's Stack has dropped a packet and forwarded none.
C18_Witness ==
    /\ drops["A"] = 1
    /\ forwarded = 0
    /\ stack["A"] = "Bound"
    /\ ret = [op |-> "send", node |-> "A", res |-> "Ok"]

\* ------------------------------------------------ writer ordering: property

RECURSIVE flatten(_)
flatten(msgs) == IF msgs = <<>> THEN <<>> ELSE Head(msgs) \o flatten(Tail(msgs))

\* The payloads of the messages still queued, up to the first error item.
RECURSIVE queued(_)
queued(q) ==
    IF q = <<>> \/ ~Head(q).ok THEN <<>> ELSE <<Head(q).data>> \o queued(Tail(q))

is_prefix(a, b) == Len(a) <= Len(b) /\ SubSeq(b, 1, Len(a)) = a

\* C19: the bytes on the socket are the messages the channel accepted, in
\* send order, each one whole before the next begins, up to where the writer
\* stops: between messages the socket holds a whole number of them, within
\* a message the rest of it is what the writer writes next, and what the
\* writer has yet to take follows in the order of the channel.
C19_WriterOrdering ==
    /\ is_prefix(written, flatten(sentLog))
    /\ writerPc # "done" =>
        /\ \E j \in 0 .. Len(sentLog) :
            /\ written \o cur = flatten(SubSeq(sentLog, 1, j))
            /\ is_prefix(queued(chan), SubSeq(sentLog, j + 1, Len(sentLog)))
        /\ writerPc = "recv" => cur = <<>>
    /\ stopCause = "closed" => written = flatten(sentLog)

\* Two messages were sent; the first is on the socket and the writer is in
\* the middle of the second.
C19_Witness ==
    /\ Len(sentLog) = 2
    /\ sentLog[1] # <<>>
    /\ sentLog[2] # <<>>
    /\ written = sentLog[1] \o SubSeq(sentLog[2], 1, 1)
    /\ writerPc = "write"
    /\ cur # <<>>

\* ------------------------------------------------ byte conservation: property

\* The messages with their prefixes put back, one after the other.
RECURSIVE reframed(_, _)
reframed(be, msgs) ==
    IF msgs = <<>> THEN <<>>
    ELSE to_ne_bytes(be, Len(Head(msgs))) \o Head(msgs) \o reframed(be, Tail(msgs))

\* C20: the messages yielded so far, each behind its 2-byte prefix, followed
\* by the residual buffer, are the bytes of all the chunks received so far.
C20_ByteConservation ==
    /\ \A i \in 1 .. Len(dst) : Len(dst[i]) < PrefixMod
    /\ reframed(bigEndian, dst) \o inner = rxAll

\* Two messages yielded over two calls or more, and a partial frame left in
\* the buffer.
C20_Witness ==
    /\ Len(dst) >= 2
    /\ dst[1] # <<>>
    /\ nCalls >= 2
    /\ inner # <<>>
    /\ drained


\* ----------------------------------------------- requestor agent: properties

\* The market calls of the agreement path of process_offer, in code order.
agreement_calls == <<"create_agreement", "confirm_agreement", "wait_for_approval">>

\* The task t has called the market along the agreement path only: its calls
\* are the first ones of agreement_calls and each but the first came after the
\* one before it was answered Ok.
agreement_path(t) ==
    /\ Len(marketCalls[t]) <= Len(agreement_calls)
    /\ marketCalls[t] = SubSeq(agreement_calls, 1, Len(marketCalls[t]))
    /\ Len(marketRets[t]) <= Len(marketCalls[t])
    /\ \A k \in 2 .. Len(marketCalls[t]) : Len(marketRets[t]) >= k - 1 /\ marketRets[t][k - 1]
    /\ offerResult[t] = "AgreementId" => marketRets[t] = <<TRUE, TRUE, TRUE>>

\* The task t failed before it called the market.
failed_uncalled(t) ==
    /\ offerPc[t] = "ended"
    /\ offerResult[t] = "Error"
    /\ marketCalls[t] = <<>>

\* C21 as stated: a proposal in Initial (or absent) state with a previous
\* proposal id fails without a market call; an Initial one without it sends
\* exactly one counter proposal and returns a ProposalId, no agreement made;
\* any other proposal calls create_agreement, confirm_agreement and
\* wait_for_approval in this order, each after the one before succeeded, and
\* returns an AgreementId only after wait_for_approval succeeded.
C21_OfferOrdering ==
    \A t \in OfferTasks :
        offer[t] # None =>
            LET p == unwrap(offer[t]) IN
            /\ is_initial(p) /\ p.prev => failed_uncalled(t)
            /\ is_initial(p) /\ ~p.prev =>
                /\ marketCalls[t] = <<"counter_proposal">>
                /\ offerPc[t] = "ended" => offerResult[t] = "ProposalId"
            /\ ~is_initial(p) =>
                /\ marketCalls[t] # <<>>
                /\ agreement_path(t)

\* C21 amended: a proposal without an id fails without a market call. For a
\* proposal with an id: in Initial (or absent) state with a previous proposal
\* id it fails without a market call; in Initial state without one it sends at
\* most one counter proposal and nothing else, and returns a ProposalId
\* exactly when the counter proposal was sent and succeeded; in any other
\* state it calls create_agreement, then confirm_agreement, then
\* wait_for_approval, each only after the one before succeeded, and returns an
\* AgreementId only after wait_for_approval succeeded.
C21_OfferOrderingWithId ==
    \A t \in OfferTasks :
        offer[t] # None =>
            LET p == unwrap(offer[t]) IN
            /\ ~p.has_id => failed_uncalled(t)
            /\ p.has_id /\ is_initial(p) /\ p.prev => failed_uncalled(t)
            /\ p.has_id /\ is_initial(p) /\ ~p.prev =>
                /\ marketCalls[t] \in {<<>>, <<"counter_proposal">>}
                /\ offerPc[t] = "ended" =>
                    /\ offerResult[t] \in {"ProposalId", "Error"}
                    /\ offerResult[t] = "ProposalId" <=>
                           marketCalls[t] # <<>> /\ marketRets[t] = <<TRUE>>
            /\ p.has_id /\ ~is_initial(p) =>
                /\ marketCalls[t] # <<>>
                /\ agreement_path(t)

\* An agreement was made: all three calls succeeded in turn.
C21_Witness ==
    /\ offer[1] # None
    /\ unwrap(offer[1]).has_id
    /\ ~is_initial(unwrap(offer[1]))
    /\ offerResult[1] = "AgreementId"
    /\ marketCalls[1] = agreement_calls
    /\ marketRets[1] = <<TRUE, TRUE, TRUE>>


\* What the agreement worker does for one id, in code order.
worker_cycle ==
    <<"received", "process_agreement", "process_returned", "terminate_agreement", "terminated">>

\* C22: the agreement worker takes the ids in channel order and handles them
\* one at a time: for each id it receives it runs process_agreement, calls
\* terminate_agreement once after process_agreement returned, Ok or Err, and
\* takes the next id only after terminate_agreement answered.
C22_AgreementWorker ==
    /\ [](/\ \A i \in 1 .. Len(workerLog) :
               /\ workerLog[i].ev = worker_cycle[((i - 1) % Len(worker_cycle)) + 1]
               /\ workerLog[i].id = workerLog[i - ((i - 1) % Len(worker_cycle))].id
          /\ \A i, j \in 1 .. Len(workerLog) :
               /\ workerLog[i].ev = "terminate_agreement"
               /\ workerLog[j].ev = "terminate_agreement"
               /\ workerLog[i].id = workerLog[j].id
               => i = j)
    /\ [][/\ Len(workerLog') > Len(workerLog)
          /\ workerLog'[Len(workerLog) + 1].ev = "received"
          => /\ agreements # <<>>
             /\ workerLog'[Len(workerLog) + 1].id = Head(agreements)
             /\ agreements' = Tail(agreements)]_vars

\* Two agreements, the one of the second task sent first; process_agreement
\* failed for the first id handled and both were terminated.
C22_Witness ==
    /\ Len(workerLog) = 2 * Len(worker_cycle)
    /\ workerLog[1].id = 2
    /\ workerLog[3].ok = FALSE
    /\ workerLog[4] = [ev |-> "terminate_agreement", id |-> 2]
    /\ workerLog[7].id = 1
    /\ workerLog[9] = [ev |-> "terminate_agreement", id |-> 1]

====
